---- MODULE Spec2Model ----
(***************************************************************************)
(* Model of the U-Net training driver (unet/train.py) and of the           *)
(* thresholded IoU metric (unet/metrics.py).                               *)
(*                                                                         *)
(* Four specifications share the module's variables:                       *)
(*   SpecIoU    iou_pytorch applied to bounded batches of masks            *)
(*   SpecChunk  the sub-batch classification loop of val_epoch and         *)
(*              calc_metrics applied to bounded patch sequences            *)
(*   Spec       a caller running train_epoch, val_epoch and calc_metrics   *)
(*              in any order, one batch per step                           *)
(*   SpecTrain  Trainer.train: the epoch loop with checkpointing           *)
(***************************************************************************)
EXTENDS Integers, Sequences, FiniteSets

VARIABLES
    \* iou_pytorch (SpecIoU)
    iou_args,        \* [outputs_labels, reduce]: the arguments of one call
    iou_ret,         \* the value the call returned, or NoValue
    \* sub-batch classification (SpecChunk)
    chunk_patches,   \* the patches handed to the loop
    chunk_out,       \* torch.cat(proj_out) after the loop, or NoValue
    \* a pass: train_epoch / val_epoch / calc_metrics (Spec, SpecTrain)
    pc,              \* "idle", the running pass, or "raised"
    batch_index,     \* enumerate(it): number of batches already processed
    collection,      \* Collector: metric name -> values added in this pass
    boxes,           \* BoundingBoxes store of calc_metrics
    iou,             \* the iou list of calc_metrics
    proj_out,        \* the local proj_out: NoValue (unbound) or the classifier rows
    last,            \* what the batch just processed did (events of the batch)
    vis,             \* visualizations written during the running pass
    ret,             \* what the last finished pass returned, or NoValue
    weights,         \* self.model / self.proj_model: number of optimizer steps
    passes,          \* passes started by the caller (Spec)
    \* Trainer.train (SpecTrain)
    stage,           \* position within the epoch loop body
    epoch,           \* i_epoch
    best_value,      \* best_value (NoValue for None)
    current_model,   \* contents of current_model.h5
    best_model,      \* contents of best_model.h5
    val_loss,        \* val_loss of the running epoch
    losses           \* val_loss of every finished epoch, with the weights saved

vars == <<iou_args, iou_ret, chunk_patches, chunk_out, pc, batch_index,
          collection, boxes, iou, proj_out, last, vis, ret, weights, passes,
          stage, epoch, best_value, current_model, best_model, val_loss,
          losses>>

iouVars   == <<iou_args, iou_ret>>
chunkVars == <<chunk_patches, chunk_out>>
passVars  == <<pc, batch_index, collection, boxes, iou, proj_out, last, vis,
               ret, weights, passes>>
trainVars == <<stage, epoch, best_value, current_model, best_model, val_loss,
               losses>>

\* A value that may be absent (an unbound local, None, nothing returned yet)
\* is a sequence of length 0 or 1.
NoValue == <<>>
Some(x) == <<x>>

-----------------------------------------------------------------------------
(* Bounds                                                                  *)

ImagePixels == 5      \* H*W of every mask handed to iou_pytorch
MaxIouBatch == 2      \* images in one iou_pytorch call
MaxPatches  == 70     \* patches handed to the sub-batch loop
BatchImages == 2      \* images in one batch of a pass
MaxRegions  == 2      \* connected components found in one batch
NumClasses  == 2      \* region categories the model distinguishes
MaxMissed   == 1      \* ground-truth regions of a batch no component covers
MaxLoss     == 1      \* the segmentation loss of a batch lies in 1..MaxLoss
MaxBatches  == 2      \* batches a data loader yields
MaxPasses   == 2      \* passes the caller of Spec starts
MaxEpochs   == 2      \* config["train"]["epochs"]

-----------------------------------------------------------------------------
(* Arithmetic helpers                                                      *)

RECURSIVE SumSeq(_)
SumSeq(s) == IF s = <<>> THEN 0 ELSE Head(s) + SumSeq(Tail(s))

Min2(a, b) == IF a <= b THEN a ELSE b
Max2(a, b) == IF a >= b THEN a ELSE b

\* ceil(n / d) for d > 0 and n >= 0
CeilDiv(n, d) == (n + d - 1) \div d

-----------------------------------------------------------------------------
(* unet/metrics.py: iou_pytorch                                            *)
(*                                                                         *)
(* A mask is given by how many of its ImagePixels pixels carry each pair   *)
(* <<logit, label>>: the sums over H and W do not depend on where a pixel  *)
(* lies.  Logit 0 is the boundary case sigmoid(0) = 0.5.  Scores are kept  *)
(* in tenths (the code divides the rounded value by 10).  The sums are     *)
(* float32 tensors, so every operation on them rounds to float32: a float  *)
(* is the record [m, e] of value m * 2^e, with 2^23 <= m < 2^24 when it is  *)
(* the rounded result of an operation.                                     *)

SmoothInv == 1000000

Logits == {0, 1}
Labels == {0, 1}
PixelKinds == Logits \X Labels

\* number of pixels of img whose kind is in kinds
RECURSIVE SumCounts(_, _)
SumCounts(img, kinds) ==
    IF kinds = {} THEN 0
    ELSE LET k == CHOOSE x \in kinds : TRUE
         IN  img[k] + SumCounts(img, kinds \ {k})

Images == {c \in [PixelKinds -> 0..ImagePixels] :
             SumCounts(c, PixelKinds) = ImagePixels}

\* outputs.sigmoid() > 0.5: sigmoid is increasing with sigmoid(0) = 0.5
SigmoidAboveHalf(logit) == logit > 0
\* labels > 0.5
LabelAboveHalf(label) == 2 * label > 1

\* (outputs & labels).float().sum((1, 2))
Intersection(img) ==
    SumCounts(img, {k \in PixelKinds :
                      SigmoidAboveHalf(k[1]) /\ LabelAboveHalf(k[2])})

\* (outputs | labels).float().sum((1, 2))
Union(img) ==
    SumCounts(img, {k \in PixelKinds :
                      SigmoidAboveHalf(k[1]) \/ LabelAboveHalf(k[2])})

Zero == [m |-> 0, e |-> 0]

RECURSIVE Log2Floor(_)
Log2Floor(n) == IF n < 2 THEN 0 ELSE 1 + Log2Floor(n \div 2)

\* n / d rounded to the nearest integer, ties to the even one
RoundHalfEven(n, d) ==
    LET q == n \div d
        r == n % d
    IN  IF 2 * r > d \/ (2 * r = d /\ q % 2 = 1) THEN q + 1 ELSE q

\* long division: m holds the quotient bits produced so far, r the remainder;
\* at 24 bits the remainder decides the rounding (nearest, ties to even)
RECURSIVE DivBits(_, _, _, _)
DivBits(m, r, d, e) ==
    IF m >= 2^23
    THEN LET up == 2 * r > d \/ (2 * r = d /\ m % 2 = 1)
             m2 == IF up THEN m + 1 ELSE m
         IN  IF m2 = 2^24 THEN [m |-> 2^23, e |-> e + 1]
             ELSE [m |-> m2, e |-> e]
    ELSE IF 2 * r >= d THEN DivBits(2 * m + 1, 2 * r - d, d, e - 1)
    ELSE DivBits(2 * m, 2 * r, d, e - 1)

\* the float32 nearest to n / d, for 0 <= n < 2^24 * d
RoundRatio(n, d) ==
    IF n = 0 THEN Zero ELSE DivBits(n \div d, n % d, d, 0)

\* SMOOTH = 1e-6, as the float32 it becomes in an operation with a tensor
SMOOTH == RoundRatio(1, SmoothInv)

\* the float32 of a pixel count
FromInt(i) ==
    IF i = 0 THEN Zero
    ELSE [m |-> i * 2^(23 - Log2Floor(i)), e |-> Log2Floor(i) - 23]

\* count + s in float32, for a float s below the last place of count
FloatAdd(i, s) ==
    IF i = 0 THEN s
    ELSE IF s.m = 0 THEN FromInt(i)
    ELSE LET x == FromInt(i)
         IN  [m |-> x.m + RoundHalfEven(s.m, 2^(x.e - s.e)), e |-> x.e]

\* a / b in float32
FloatDiv(a, b) ==
    IF a.m = 0 THEN Zero
    ELSE LET q == RoundRatio(a.m, b.m)
         IN  [m |-> q.m, e |-> q.e + a.e - b.e]

\* intersection + SMOOTH and union + SMOOTH
IouNumMissingSmooth(i) == FloatAdd(i, Zero)
IouNum(i) == FloatAdd(i, SMOOTH)
IouDen(u) == FloatAdd(u, SMOOTH)

\* iou = (intersection + SMOOTH) / (union + SMOOTH)
Iou(i, u) == FloatDiv(IouNum(i), IouDen(u))

\* x > 0.5 for a rounded x
AboveHalf(x) == x.m > 0 /\ (x.e > -24 \/ (x.e = -24 /\ x.m > 2^23))

\* iou - 0.5 for 0.5 < iou <= 1: the difference is a float32, nothing is
\* rounded
MinusHalf(x) == [m |-> x.m - 2^(-1 - x.e), e |-> x.e]

\* 20 * d in float32, for d > 0
Times20(d) ==
    LET p == 20 * d.m
        k == Max2(0, Log2Floor(p) - 23)
    IN  [m |-> RoundHalfEven(p, 2^k), e |-> d.e + k]

\* x.ceil() for x > 0 with x.e <= 0
Ceil(x) == CeilDiv(x.m, 2^(-x.e))

\* torch.clamp(20 * (iou - 0.5), 0, 10).ceil(), the score in tenths: a
\* difference that is not positive is clamped to 0, and 10 is a whole number,
\* so clamping at 10 before or after ceil gives the same
Thresholded(i, u) ==
    LET x == Iou(i, u)
    IN  IF ~AboveHalf(x) THEN 0
        ELSE Min2(10, Ceil(Times20(MinusHalf(x))))

ImageScore(img) == Thresholded(Intersection(img), Union(img))

\* thresholded.mean() of a batch, as the pair sum / count
Mean(s) == [sum |-> SumSeq(s), n |-> Len(s)]

iou_pytorch(outputs_labels, reduce) ==
    LET thresholded == [k \in 1..Len(outputs_labels) |->
                            ImageScore(outputs_labels[k])]
    IN  IF reduce THEN Mean(thresholded) ELSE thresholded

IouBatches == UNION {[1..n -> Images] : n \in 1..MaxIouBatch}

-----------------------------------------------------------------------------
(* unet/train.py: classification in sub-batches of 32                       *)

SubBatch == 32

\* self.proj_model(patches): one row of logits per patch, a function of the
\* patch alone (the weights do not change during evaluation)
proj_model(patches) == [k \in 1..Len(patches) |-> [logits_of |-> patches[k]]]

\* a slice that starts one patch early: patches[start-1: start+32]
SliceOverlapping(patches, start) ==
    SubSeq(patches, Max2(start, 1), Min2(start + SubBatch, Len(patches)))

\* patches[start: start+32], start counted from 0
Slice(patches, start) ==
    SubSeq(patches, start + 1, Min2(start + SubBatch, Len(patches)))

\* for start in range(0, len(patches), 32): proj_out.append(...)
RECURSIVE SubBatchLoop(_, _, _)
SubBatchLoop(patches, start, acc) ==
    IF start >= Len(patches) THEN acc
    ELSE SubBatchLoop(patches, start + SubBatch,
                      Append(acc, proj_model(Slice(patches, start))))

\* torch.cat(proj_out)
RECURSIVE Cat(_)
Cat(parts) == IF parts = <<>> THEN <<>> ELSE Head(parts) \o Cat(Tail(parts))

ClassifyInSubBatches(patches) == Cat(SubBatchLoop(patches, 0, <<>>))

-----------------------------------------------------------------------------
(* One batch as the data loader and the two networks deliver it            *)

\* float('nan'), as a value no metric takes otherwise
NaN == -1

\* a ratio as a percentage, nan for 0/0 (the mean of an empty tensor)
Percent(n, d) == IF d = 0 THEN NaN ELSE (100 * n) \div d

\* np.mean of a list of values: nan when empty or when it holds a nan
NpMean(s) ==
    IF s = <<>> \/ \E k \in 1..Len(s) : s[k] = NaN
    THEN [sum |-> 0, n |-> Len(s), nan |-> TRUE]
    ELSE [sum |-> SumSeq(s), n |-> Len(s), nan |-> FALSE]

Classes == 0..(NumClasses - 1)
Unmatched == -1

\* A connected component of the predicted mask: the image it lies in, the
\* class of the ground-truth region it covers (Unmatched: none), and whether
\* it is degenerate (below the minimum dimension, no pixels to crop).
Components == [image : 0..(BatchImages - 1),
               cls   : {Unmatched} \cup Classes,
               small : BOOLEAN]

\* concatenation order is image order
ComponentSeqs ==
    {s \in UNION {[1..n -> Components] : n \in 0..MaxRegions} :
        \A j, k \in 1..Len(s) : j < k => s[j].image <= s[k].image}

\* The segmentation network's output on the batch against the ground-truth
\* masks: the loss self.criterion gives and the masks iou_pytorch scores.
\* Outcome l has loss l and, in image j, l + j - 1 foreground pixels missed.
SegMask(l, j) ==
    LET miss == Min2(l + j - 1, ImagePixels)
    IN  [k \in PixelKinds |->
            IF k = <<1, 1>> THEN ImagePixels - miss
            ELSE IF k = <<0, 1>> THEN miss ELSE 0]

SegOutcomes ==
    {[loss |-> l, masks |-> [j \in 1..BatchImages |-> SegMask(l, j)]] :
        l \in 1..MaxLoss}

Batches == [seg : SegOutcomes, regions : ComponentSeqs, missed : 0..MaxMissed]

\* the batches Trainer.train is run on in SpecTrain
LoopBatches == {b \in Batches : Len(b.regions) <= 1 /\ b.missed = 0}

-----------------------------------------------------------------------------
(* unet/projections.py, known by its callers and by the specification      *)

NotSmall(r) == ~r.small

\* RegionExtractor: filter_masks=True drops the degenerate components
ExtractRegions(b, filter_masks) ==
    IF filter_masks THEN SelectSeq(b.regions, NotSmall) ELSE b.regions

\* number of kept components among the first k components of the batch
RECURSIVE KeptUpTo(_, _, _)
KeptUpTo(b, filter_masks, k) ==
    IF k = 0 THEN 0
    ELSE KeptUpTo(b, filter_masks, k - 1)
         + (IF filter_masks /\ b.regions[k].small THEN 0 ELSE 1)

\* GroundTruthMatcher's found map: per ground-truth region the index of the
\* rectangle that found it, -1 when none did
RECURSIVE FoundMap(_, _, _)
FoundMap(b, filter_masks, k) ==
    IF k > Len(b.regions) THEN [j \in 1..b.missed |-> -1]
    ELSE (IF b.regions[k].cls = Unmatched THEN <<>>
          ELSE IF filter_masks /\ b.regions[k].small THEN <<-1>>
          ELSE <<KeptUpTo(b, filter_masks, k) - 1>>)
         \o FoundMap(b, filter_masks, k + 1)

\* proj, rectangles, proj_class, image_index, true_pred_map
process_batch_torch_wrap(b, filter_masks) ==
    LET kept == ExtractRegions(b, filter_masks)
    IN  [proj_rows     |-> Len(kept),
         rectangles    |-> [k \in 1..Len(kept) |->
                               [rect |-> k, small |-> kept[k].small]],
         proj_class    |-> [k \in 1..Len(kept) |-> kept[k].cls],
         image_index   |-> [k \in 1..Len(kept) |-> kept[k].image],
         true_pred_map |-> FoundMap(b, filter_masks, 1)]

\* PatchSampler: one patch per rectangle, a degenerate rectangle dropped
RECURSIVE PatchesFrom(_, _, _, _)
PatchesFrom(rectangles, image_index, batch, k) ==
    IF k > Len(rectangles) THEN <<>>
    ELSE (IF rectangles[k].small THEN <<>>
          ELSE <<[batch |-> batch, rect |-> rectangles[k].rect,
                  image |-> image_index[k]]>>)
         \o PatchesFrom(rectangles, image_index, batch, k + 1)

process_patches(rectangles, image_index, batch) ==
    PatchesFrom(rectangles, image_index, batch, 1)

-----------------------------------------------------------------------------
(* Library calls and unet/metrics.py, unet/collector.py                    *)

\* the class a row of logits decides for: the classifier, a fixed function
\* of the patch, is taken to answer with the image's parity
ArgMax(row) == row.logits_of.image % NumClasses

\* t[proj_class >= 0] for a tensor t with one row per entry of proj_class
RECURSIVE MaskFrom(_, _, _)
MaskFrom(t, proj_class, k) ==
    IF k > Len(proj_class) THEN <<>>
    ELSE (IF proj_class[k] >= 0 THEN <<t[k]>> ELSE <<>>)
         \o MaskFrom(t, proj_class, k + 1)

\* the tensor t whole, without the mask
MaskSelectAll(t, proj_class) == t

MaskSelect(t, proj_class) == MaskFrom(t, proj_class, 1)

\* (proj_class >= 0).sum()
MatchedCount(proj_class) ==
    Cardinality({k \in 1..Len(proj_class) : proj_class[k] >= 0})

Wrong(rows, labels) ==
    Cardinality({k \in 1..Len(rows) : ArgMax(rows[k]) # labels[k]})

\* F.cross_entropy: positive, growing with the misclassified rows
cross_entropy(rows, labels) == 1 + Wrong(rows, labels)

\* accuracy over the entries that carry a class, nan when there is none
special_accuracy(rows, labels, true_pred_map) ==
    LET real == {k \in 1..Len(labels) : labels[k] >= 0}
    IN  Percent(Cardinality({k \in real : ArgMax(rows[k]) = labels[k]}),
                Cardinality(real))

\* (true_pred_map >= 0).float().mean().item()
FoundRate(true_pred_map) ==
    Percent(Cardinality({k \in 1..Len(true_pred_map) : true_pred_map[k] >= 0}),
            Len(true_pred_map))

\* the ground truth of a batch as the metrics read it from class_mask
LabelMask(b, proj_class) == [cls |-> proj_class, missed |-> b.missed]

\* np.mean of the AP rows of mAP_wrapper, within one batch
mAP_wrapper(rectangles, pred_classes, image_indeces, label_mask) ==
    Percent(Cardinality({k \in 1..Len(rectangles) :
                            ArgMax(pred_classes[k]) = label_mask.cls[k]}),
            Len(rectangles) + label_mask.missed)

\* maP_create_boxes: a detection per rectangle, then a ground-truth box per
\* ground-truth region; image_id = relative_index + index within the batch.
\* from names the batch and image a box was made for.
maP_create_boxes(rectangles, pred_classes, image_indeces, label_mask, relative_index, batch) ==
    LET n == Len(rectangles)
        det == [k \in 1..n |->
                  [image_id |-> relative_index + image_indeces[k],
                   cls |-> ArgMax(pred_classes[k]), gt |-> FALSE,
                   from |-> <<batch, image_indeces[k]>>]]
        found == MaskSelect([k \in 1..n |->
                  [image_id |-> relative_index + image_indeces[k],
                   cls |-> label_mask.cls[k], gt |-> TRUE,
                   from |-> <<batch, image_indeces[k]>>]], label_mask.cls)
        lost == [k \in 1..label_mask.missed |->
                  [image_id |-> relative_index, cls |-> 0, gt |-> TRUE,
                   from |-> <<batch, 0>>]]
    IN  det \o found \o lost

\* mAP_wrapper_from_boxes: per ground-truth class the share of detections
\* of that class that meet a ground-truth box of their image
mAP_wrapper_from_boxes(bxs) ==
    LET all == {bxs[k] : k \in 1..Len(bxs)}
        Dets(c) == {k \in 1..Len(bxs) : ~bxs[k].gt /\ bxs[k].cls = c}
        Hit(k)  == \E g \in all : g.gt /\ g.cls = bxs[k].cls
                                       /\ g.image_id = bxs[k].image_id
        AP(c)   == IF Dets(c) = {} THEN 0
                   ELSE Percent(Cardinality({k \in Dets(c) : Hit(k)}),
                                Cardinality(Dets(c)))
        RECURSIVE Rows(_)
        Rows(c) == IF c >= NumClasses THEN <<>>
                   ELSE (IF \E g \in all : g.gt /\ g.cls = c
                         THEN <<AP(c)>> ELSE <<>>) \o Rows(c + 1)
    IN  Rows(0)

\* metric_f(out, mask, reduce=True).item(), in percent
Item(mean) == (10 * mean.sum) \div mean.n

Keys == {"total_loss", "proj_loss", "segm_loss", "metric_iou",
         "metric_proj_acc", "metric_found_rects", "VOC_Metrics_AP"}

\* a Collector nothing was added to
EmptyCollector == [k \in Keys |-> <<>>]

\* the Collector of the pass before, used again
KeptCollector == collection

\* collection = Collector()
NewCollector == EmptyCollector

\* collection.add(name, value)
Add(c, name, value) == [c EXCEPT ![name] = Append(@, value)]

\* collection.keys()
KeysOf(c) == {k \in Keys : c[k] # <<>>}

\* epoch_reduced_metrics, epoch_loss popped from it
Reduced(c, extra) ==
    [epoch_loss |-> NpMean(c["total_loss"]),
     metrics    |-> [k \in (KeysOf(c) \ {"total_loss"}) \cup DOMAIN extra |->
                        IF k \in DOMAIN extra THEN extra[k] ELSE NpMean(c[k])]]

-----------------------------------------------------------------------------
(* unet/train.py: the body of the batch loop of each pass                  *)
(*                                                                         *)
(* A body yields the values the pass's locals hold after the batch, what   *)
(* the batch did (events) and the exception that ended it, if one did.     *)

NoError == "none"

\* the test with a comparison that never holds
NotEnoughRectsNever(proj_rows) == proj_rows < 0

\* proj.shape[0] == 0
NotEnoughRects(proj_rows) == proj_rows = 0

Events(ner, rects, proj_class, loss_labels, clf, acc_called, acc_labels, voc_called, error) ==
    [not_enough_rects |-> ner,     \* the flag of the batch
     rects      |-> rects,         \* rectangles of the batch
     proj_class |-> proj_class,    \* the class of each rectangle, -1 for none
     loss_labels |-> loss_labels,  \* the classes handed to F.cross_entropy
     clf        |-> clf,           \* patches in each call of proj_model
     acc_called |-> acc_called,    \* special_accuracy was called
     acc_labels |-> acc_labels,    \* the classes handed to special_accuracy
     voc_called |-> voc_called,    \* mAP_wrapper / maP_create_boxes was called
     error      |-> error]

NoBatch == Events(FALSE, 0, <<>>, <<>>, <<>>, FALSE, <<>>, FALSE, NoError)

After(c, bxs, iu, out, v, stepped, ev) ==
    [collection |-> c, boxes |-> bxs, iou |-> iu, proj_out |-> out,
     vis |-> v, stepped |-> stepped, last |-> ev]

\* the same without the test for the first batch
WriteImagesEveryBatch(v, index, ner) ==
    Append(v, [batch |-> index,
               kind  |-> IF ner THEN "plain" ELSE "with_class"])

\* _write_images_with_class for a batch with rectangles, else _write_images
WriteImages(v, index, ner) ==
    IF index = 0
    THEN Append(v, [batch |-> index,
                    kind  |-> IF ner THEN "plain" ELSE "with_class"])
    ELSE v

\* a tensor with the wrong number of rows for the mask or the rectangles
WrongRows(out, n) == out = NoValue \/ Len(out[1]) # n
RowError(out)     == IF out = NoValue THEN "UnboundLocalError" ELSE "IndexError"

\* train_epoch, lines 131-218
TrainEpochBody(b) ==
    LET p      == process_batch_torch_wrap(b, TRUE)
        loss   == b.seg.loss
        labels == p.proj_class
        ner    == NotEnoughRects(p.proj_rows)
        patches == process_patches(p.rectangles, p.image_index, batch_index)
        out    == IF ner THEN proj_out ELSE Some(proj_model(patches))
        clf    == IF ner THEN <<>> ELSE <<Len(patches)>>
        learn  == ~ner /\ MatchedCount(labels) > 0
        bad    == ~ner /\ WrongRows(out, p.proj_rows)
        sel_rows   == MaskSelect(out[1], labels)
        sel_labels == MaskSelect(labels, labels)
        ce_labels  == IF learn THEN sel_labels ELSE <<>>
        proj_loss  == IF learn THEN cross_entropy(sel_rows, sel_labels) ELSE 0
        total_loss == loss + proj_loss
        c1 == Add(Add(Add(collection, "total_loss", total_loss),
                      "proj_loss", proj_loss), "segm_loss", loss)
        c2 == Add(c1, "metric_iou", Item(iou_pytorch(b.seg.masks, TRUE)))
        acc == IF ner THEN 0
               ELSE special_accuracy(sel_rows, sel_labels, p.true_pred_map)
        c3 == Add(c2, "metric_proj_acc", acc)
        c4 == Add(c3, "metric_found_rects", FoundRate(p.true_pred_map))
        c5 == IF ner THEN c4
              ELSE Add(c4, "VOC_Metrics_AP",
                       mAP_wrapper(p.rectangles, out[1], p.image_index,
                                   LabelMask(b, labels)))
    IN  IF bad /\ learn
        THEN After(collection, boxes, iou, out, vis, FALSE,
                   Events(ner, p.proj_rows, labels, ce_labels, clf,
                          FALSE, <<>>, FALSE,
                          RowError(out)))
        ELSE IF bad
        THEN After(c2, boxes, iou, out, vis, TRUE,
                   Events(ner, p.proj_rows, labels, ce_labels, clf,
                          FALSE, <<>>, FALSE,
                          RowError(out)))
        ELSE After(c5, boxes, iou, out,
                   WriteImages(vis, batch_index, ner), TRUE,
                   Events(ner, p.proj_rows, labels, ce_labels, clf, ~ner,
                          IF ner THEN <<>> ELSE sel_labels, ~ner, NoError))

\* val_epoch and calc_metrics, lines 241-258 and 324-341: the classifier
\* rows after the batch, and the sizes of the sub-batches classified
EvalRows(ner, patches) ==
    IF ner \/ Len(patches) = 0 THEN proj_out
    ELSE Some(ClassifyInSubBatches(patches))

EvalCalls(ner, patches) ==
    IF ner \/ Len(patches) = 0 THEN <<>>
    ELSE LET parts == SubBatchLoop(patches, 0, <<>>)
         IN  [k \in 1..Len(parts) |-> Len(parts[k])]

\* val_epoch, lines 232-300
ValEpochBody(b) ==
    LET p      == process_batch_torch_wrap(b, FALSE)
        loss   == b.seg.loss
        labels == p.proj_class
        ner    == NotEnoughRects(p.proj_rows)
        patches == process_patches(p.rectangles, p.image_index, batch_index)
        out    == EvalRows(ner, patches)
        clf    == EvalCalls(ner, patches)
        learn  == ~ner /\ MatchedCount(labels) > 0
        bad    == ~ner /\ WrongRows(out, p.proj_rows)
        ce_labels  == IF learn THEN MaskSelect(labels, labels) ELSE <<>>
        proj_loss  == IF learn
                      THEN cross_entropy(MaskSelect(out[1], labels),
                                         MaskSelect(labels, labels))
                      ELSE 0
        total_loss == loss + proj_loss
        c1 == Add(Add(Add(collection, "total_loss", total_loss),
                      "proj_loss", proj_loss), "segm_loss", loss)
        c2 == Add(c1, "metric_iou", Item(iou_pytorch(b.seg.masks, TRUE)))
        zero == ner \/ MatchedCount(labels) = 0
        acc == IF zero THEN 0
               ELSE special_accuracy(out[1], labels, p.true_pred_map)
        c3 == Add(c2, "metric_proj_acc", acc)
        c4 == Add(c3, "metric_found_rects", FoundRate(p.true_pred_map))
        c5 == IF ner THEN c4
              ELSE Add(c4, "VOC_Metrics_AP",
                       mAP_wrapper(p.rectangles, out[1], p.image_index,
                                   LabelMask(b, labels)))
    IN  IF bad /\ learn
        THEN After(collection, boxes, iou, out, vis, FALSE,
                   Events(ner, p.proj_rows, labels, ce_labels, clf,
                          FALSE, <<>>, FALSE,
                          RowError(out)))
        ELSE IF bad
        THEN After(c4, boxes, iou, out, vis, FALSE,
                   Events(ner, p.proj_rows, labels, ce_labels, clf,
                          FALSE, <<>>, FALSE,
                          RowError(out)))
        ELSE After(c5, boxes, iou, out,
                   WriteImages(vis, batch_index, ner), FALSE,
                   Events(ner, p.proj_rows, labels, ce_labels, clf, ~zero,
                          IF zero THEN <<>> ELSE labels, ~ner, NoError))

\* relative_index=len(boxes)
RelativeIndex(bxs) == Len(bxs)

\* calc_metrics, lines 315-377
CalcMetricsBody(b) ==
    LET p      == process_batch_torch_wrap(b, FALSE)
        loss   == b.seg.loss
        labels == p.proj_class
        ner    == NotEnoughRects(p.proj_rows)
        patches == process_patches(p.rectangles, p.image_index, batch_index)
        out    == EvalRows(ner, patches)
        clf    == EvalCalls(ner, patches)
        learn  == ~ner /\ MatchedCount(labels) > 0
        bad    == ~ner /\ WrongRows(out, p.proj_rows)
        ce_labels  == IF learn THEN MaskSelect(labels, labels) ELSE <<>>
        proj_loss  == IF learn
                      THEN cross_entropy(MaskSelect(out[1], labels),
                                         MaskSelect(labels, labels))
                      ELSE 0
        total_loss == loss + proj_loss
        c1 == Add(Add(Add(collection, "total_loss", total_loss),
                      "proj_loss", proj_loss), "segm_loss", loss)
        iu == iou \o iou_pytorch(b.seg.masks, FALSE)
        zero == ner \/ MatchedCount(labels) = 0
        acc == IF zero THEN 0
               ELSE special_accuracy(out[1], labels, p.true_pred_map)
        c3 == Add(c1, "metric_proj_acc", acc)
        c4 == Add(c3, "metric_found_rects", FoundRate(p.true_pred_map))
        bxs == IF ner THEN boxes
               ELSE boxes \o maP_create_boxes(p.rectangles, out[1],
                                 p.image_index, LabelMask(b, labels),
                                 RelativeIndex(boxes), batch_index)
    IN  IF bad /\ learn
        THEN After(collection, boxes, iou, out, vis, FALSE,
                   Events(ner, p.proj_rows, labels, ce_labels, clf,
                          FALSE, <<>>, FALSE,
                          RowError(out)))
        ELSE IF bad
        THEN After(c4, boxes, iu, out, vis, FALSE,
                   Events(ner, p.proj_rows, labels, ce_labels, clf,
                          FALSE, <<>>, FALSE,
                          RowError(out)))
        ELSE After(c4, bxs, iu, out,
                   WriteImages(vis, batch_index, ner), FALSE,
                   Events(ner, p.proj_rows, labels, ce_labels, clf, ~zero,
                          IF zero THEN <<>> ELSE labels, ~ner, NoError))

-----------------------------------------------------------------------------
(* The passes as actions                                                   *)

PassKinds == {"train_epoch", "val_epoch", "calc_metrics"}

\* BoundingBoxes() and iou = [] of calc_metrics
NewBoundingBoxes == <<>>
NewIouList == <<>>

\* entry of a pass: the loader is made, collection = Collector() (and, in
\* calc_metrics, boxes = BoundingBoxes(), iou = []); no local is bound yet
Begin(kind) ==
    /\ pc = "idle"
    /\ pc' = kind
    /\ batch_index' = 0
    /\ collection' = NewCollector
    /\ boxes' = NewBoundingBoxes
    /\ iou' = NewIouList
    /\ proj_out' = NoValue
    /\ last' = NoBatch
    /\ vis' = <<>>
    /\ ret' = NoValue
    /\ UNCHANGED weights

\* one iteration of the batch loop; an exception leaves the pass
Iterate(kind, r) ==
    /\ pc = kind
    /\ batch_index < MaxBatches
    /\ collection' = r.collection
    /\ boxes' = r.boxes
    /\ iou' = r.iou
    /\ proj_out' = r.proj_out
    /\ vis' = r.vis
    /\ last' = r.last
    /\ weights' = IF r.stepped THEN weights + 1 ELSE weights
    /\ IF r.last.error = NoError
       THEN pc' = pc /\ batch_index' = batch_index + 1
       ELSE pc' = "raised" /\ batch_index' = batch_index
    /\ UNCHANGED ret

TrainEpochBatch(inputs) ==
    /\ \E b \in inputs : Iterate("train_epoch", TrainEpochBody(b))
    /\ UNCHANGED <<passes, iouVars, chunkVars, trainVars>>

ValEpochBatch(inputs) ==
    /\ \E b \in inputs : Iterate("val_epoch", ValEpochBody(b))
    /\ UNCHANGED <<passes, iouVars, chunkVars, trainVars>>

CalcMetricsBatch(inputs) ==
    /\ \E b \in inputs : Iterate("calc_metrics", CalcMetricsBody(b))
    /\ UNCHANGED <<passes, iouVars, chunkVars, trainVars>>

\* the loader is exhausted (every data set holds a batch at least)
Finish(kind, value) ==
    /\ pc = kind
    /\ batch_index >= 1
    /\ pc' = "idle"
    /\ ret' = Some(value)
    /\ UNCHANGED <<batch_index, collection, boxes, iou, proj_out, last, vis,
                   weights>>

\* train_epoch, lines 220-222
TrainEpochReturn ==
    /\ Finish("train_epoch", Reduced(collection, <<>>))
    /\ UNCHANGED <<passes, iouVars, chunkVars, trainVars>>

\* val_epoch, lines 302-304
ValEpochReturn ==
    /\ Finish("val_epoch", Reduced(collection, <<>>))
    /\ UNCHANGED <<passes, iouVars, chunkVars, trainVars>>

\* calc_metrics, lines 379-388
CalcMetricsReturn ==
    /\ Finish("calc_metrics",
              Reduced(collection,
                      [AP  |-> NpMean(mAP_wrapper_from_boxes(boxes)),
                       IOU |-> NpMean(iou)]))
    /\ UNCHANGED <<passes, iouVars, chunkVars, trainVars>>

\* a caller of the Trainer starts any pass
Call(kind) ==
    /\ passes < MaxPasses
    /\ Begin(kind)
    /\ passes' = passes + 1
    /\ UNCHANGED <<iouVars, chunkVars, trainVars>>

CallTrainEpoch  == Call("train_epoch")
CallValEpoch    == Call("val_epoch")
CallCalcMetrics == Call("calc_metrics")

-----------------------------------------------------------------------------
(* unet/train.py: Trainer.train                                            *)

\* val_loss < best_value for two means
Less(a, b) == ~a.nan /\ ~b.nan /\ a.sum * b.n < b.sum * a.n
LessOrEqual(a, b) == ~a.nan /\ ~b.nan /\ a.sum * b.n <= b.sum * a.n

\* the test with <= for <
UpgradeOnTie(loss, best) == best = NoValue \/ LessOrEqual(loss, best[1])

\* best_value is None or val_loss < best_value
Upgrade(loss, best) == best = NoValue \/ Less(loss, best[1])

\* line 460: self.train_epoch(self.epoch)
TrainRunsTrainEpoch ==
    /\ stage = "epoch"
    /\ Begin("train_epoch")
    /\ stage' = "train_epoch"
    /\ UNCHANGED <<epoch, best_value, current_model, best_model, val_loss,
                   losses, passes, iouVars, chunkVars>>

\* line 461: calc_metrics on the training data
TrainRunsCalcTrain ==
    /\ stage = "train_epoch"
    /\ Begin("calc_metrics")
    /\ stage' = "calc_train"
    /\ UNCHANGED <<epoch, best_value, current_model, best_model, val_loss,
                   losses, passes, iouVars, chunkVars>>

\* line 466: calc_metrics on the validation data
TrainRunsCalcVal ==
    /\ stage = "calc_train"
    /\ Begin("calc_metrics")
    /\ stage' = "calc_val"
    /\ UNCHANGED <<epoch, best_value, current_model, best_model, val_loss,
                   losses, passes, iouVars, chunkVars>>

\* lines 466-469: val_loss is bound, calc_metrics on the test data
TrainRunsCalcTest ==
    /\ stage = "calc_val"
    /\ pc = "idle"
    /\ val_loss' = Some(ret[1].epoch_loss)
    /\ Begin("calc_metrics")
    /\ stage' = "calc_test"
    /\ UNCHANGED <<epoch, best_value, current_model, best_model, losses,
                   passes, iouVars, chunkVars>>

\* lines 480-485: save the weights, copy them when the loss improved
TrainSaves ==
    /\ stage = "calc_test"
    /\ pc = "idle"
    /\ current_model' = Some(weights)
    /\ IF Upgrade(val_loss[1], best_value)
       THEN best_value' = val_loss /\ best_model' = current_model'
       ELSE UNCHANGED <<best_value, best_model>>
    /\ losses' = Append(losses, [val_loss |-> val_loss[1], saved |-> weights])
    /\ epoch' = epoch + 1
    /\ stage' = IF epoch + 1 < MaxEpochs THEN "epoch" ELSE "done"
    /\ val_loss' = NoValue
    /\ ret' = NoValue
    /\ UNCHANGED <<pc, batch_index, collection, boxes, iou, proj_out, last,
                   vis, weights, passes, iouVars, chunkVars>>

-----------------------------------------------------------------------------
(* Calls of the pure functions                                             *)

IouCall ==
    /\ iou_ret = NoValue
    /\ iou_ret' = Some(iou_pytorch(iou_args.outputs_labels, iou_args.reduce))
    /\ UNCHANGED <<iou_args, chunkVars, passVars, trainVars>>

\* lines 249-254 and 332-337: if patches.shape[0]: ... torch.cat(proj_out)
ClassifyPatches ==
    /\ chunk_out = NoValue
    /\ Len(chunk_patches) > 0
    /\ chunk_out' = Some(ClassifyInSubBatches(chunk_patches))
    /\ UNCHANGED <<chunk_patches, iouVars, passVars, trainVars>>

-----------------------------------------------------------------------------
(* Specifications                                                          *)

InitIou   == iou_args = [outputs_labels |-> <<>>, reduce |-> FALSE]
             /\ iou_ret = NoValue
InitChunk == chunk_patches = <<>> /\ chunk_out = NoValue
InitPass  == /\ pc = "idle"
             /\ batch_index = 0
             /\ collection = EmptyCollector
             /\ boxes = <<>>
             /\ iou = <<>>
             /\ proj_out = NoValue
             /\ last = NoBatch
             /\ vis = <<>>
             /\ ret = NoValue
             /\ weights = 0
             /\ passes = 0
InitTrain == /\ epoch = 0
             /\ best_value = NoValue
             /\ current_model = NoValue
             /\ best_model = NoValue
             /\ val_loss = NoValue
             /\ losses = <<>>

Init == InitIou /\ InitChunk /\ InitPass /\ InitTrain /\ stage = "caller"

Next ==
    \/ CallTrainEpoch
    \/ CallValEpoch
    \/ CallCalcMetrics
    \/ TrainEpochBatch(Batches)
    \/ ValEpochBatch(Batches)
    \/ CalcMetricsBatch(Batches)
    \/ TrainEpochReturn
    \/ ValEpochReturn
    \/ CalcMetricsReturn

Spec == Init /\ [][Next]_vars

InitTrainLoop == InitIou /\ InitChunk /\ InitPass /\ InitTrain /\ stage = "epoch"

NextTrain ==
    \/ TrainRunsTrainEpoch
    \/ TrainRunsCalcTrain
    \/ TrainRunsCalcVal
    \/ TrainRunsCalcTest
    \/ TrainSaves
    \/ TrainEpochBatch(LoopBatches)
    \/ CalcMetricsBatch(LoopBatches)
    \/ TrainEpochReturn
    \/ CalcMetricsReturn

SpecTrain == InitTrainLoop /\ [][NextTrain]_vars

InitIouCalls ==
    /\ iou_args \in [outputs_labels : IouBatches, reduce : BOOLEAN]
    /\ iou_ret = NoValue
    /\ InitChunk /\ InitPass /\ InitTrain /\ stage = "caller"

SpecIoU == InitIouCalls /\ [][IouCall]_vars

InitChunkCalls ==
    /\ chunk_patches \in {[k \in 1..n |-> k] : n \in 0..MaxPatches}
    /\ chunk_out = NoValue
    /\ InitIou /\ InitPass /\ InitTrain /\ stage = "caller"

SpecChunk == InitChunkCalls /\ [][ClassifyPatches]_vars

-----------------------------------------------------------------------------
(* Claims                                                                  *)

BatchDone == pc \in PassKinds /\ batch_index >= 1

\* C1: in every pass and for every batch the classifier is never called on
\* an empty patch batch: a batch without regions sets not_enough_rects and
\* calls the classifier not at all, and every call gets one patch at least.
ClassifierNeverGetsEmptyBatch ==
    /\ \A k \in 1..Len(last.clf) : last.clf[k] >= 1
    /\ (last # NoBatch /\ last.rects = 0)
           => (last.not_enough_rects /\ last.clf = <<>>)

\* a train_epoch pass whose first batch was classified and whose second
\* batch had no region
ClassifiedThenSkipped ==
    /\ pc = "train_epoch" /\ batch_index = 2
    /\ Len(collection["VOC_Metrics_AP"]) = 1
    /\ last.not_enough_rects /\ last.rects = 0 /\ last.clf = <<>>

Finite(v) == v # NaN

BatchMetrics(kind) ==
    {"metric_proj_acc", "metric_found_rects", "proj_loss"}
    \cup (IF kind = "calc_metrics" THEN {} ELSE {"VOC_Metrics_AP"})

\* C2: for a batch with zero regions the pass calls none of
\* special_accuracy, mAP_wrapper, maP_create_boxes and records a finite
\* value for the batch under every per-batch metric it records otherwise.
ZeroRegionBatchRecordsNeutralValues ==
    (BatchDone /\ last.not_enough_rects) =>
        /\ ~last.acc_called /\ ~last.voc_called
        /\ \A k \in BatchMetrics(pc) :
              /\ Len(collection[k]) = batch_index
              /\ Finite(collection[k][batch_index])

IouReturned == iou_ret # NoValue /\ ~iou_args.reduce

\* C3: an image whose binarized prediction and label are both empty has
\* smoothed IoU SMOOTH/SMOOTH = 1 and gets score 1.0.
EmptyMasksScoreOne ==
    IouReturned =>
        \A k \in 1..Len(iou_args.outputs_labels) :
            LET img == iou_args.outputs_labels[k]
            IN  (Intersection(img) = 0 /\ Union(img) = 0)
                    => /\ IouNum(Intersection(img)) = IouDen(Union(img))
                       /\ iou_ret[1][k] = 10

\* a batch of an empty image and one with foreground has been scored
EmptyImageScored ==
    /\ IouReturned
    /\ \E j, k \in 1..Len(iou_args.outputs_labels) :
          /\ Union(iou_args.outputs_labels[j]) = 0
          /\ Union(iou_args.outputs_labels[k]) > 0
          /\ iou_ret[1][j] = 10

\* C4: the per-image score is non-decreasing in intersection / union
\* (union > 0), and an image with IoU at most 0.5 gets score 0.
ScoreMonotoneAndHalfIsZero ==
    IouReturned =>
        \A j, k \in 1..Len(iou_args.outputs_labels) :
            LET a == iou_args.outputs_labels[j]
                b == iou_args.outputs_labels[k]
            IN  (Union(a) > 0 /\ Union(b) > 0) =>
                  /\ (Intersection(a) * Union(b) <= Intersection(b) * Union(a))
                        => iou_ret[1][j] <= iou_ret[1][k]
                  /\ (2 * Intersection(a) <= Union(a)) => iou_ret[1][j] = 0

\* C5: two boxes of the store of calc_metrics carry the same image_id only
\* if they were made for the same image of the same batch.
ImageIdsUniquePerImage ==
    \A j, k \in 1..Len(boxes) :
        boxes[j].image_id = boxes[k].image_id => boxes[j].from = boxes[k].from

\* C6: classifying N >= 1 patches in sub-batches of 32 and concatenating
\* gives the rows of one call on all N patches, in the same order.
SubBatchesEqualOneCall ==
    chunk_out # NoValue =>
        /\ Len(chunk_out[1]) = Len(chunk_patches)
        /\ chunk_out[1] = proj_model(chunk_patches)

\* more than two full sub-batches and a remainder have been classified
RaggedSubBatchesClassified ==
    /\ chunk_out # NoValue
    /\ Len(chunk_patches) > 2 * SubBatch
    /\ Len(chunk_patches) % SubBatch # 0

\* C7: no region with the unmatched sentinel is among the entries handed
\* to special_accuracy for metric_proj_acc.
AccuracyOnlyOverMatched ==
    \A k \in 1..Len(last.acc_labels) : last.acc_labels[k] >= 0

\* C8: every pass starts with an empty Collector (calc_metrics also with an
\* empty store and IoU list); what a pass holds and returns stems from its
\* own batches only.
PassStartsEmpty ==
    /\ (pc \in PassKinds /\ batch_index = 0)
          => (collection = EmptyCollector /\ boxes = <<>> /\ iou = <<>>)
    /\ pc \in PassKinds
          => /\ \A k \in Keys : Len(collection[k]) <= batch_index
             /\ Len(collection["total_loss"]) = batch_index
             /\ Len(iou) = IF pc = "calc_metrics"
                           THEN BatchImages * batch_index ELSE 0
    /\ (pc = "idle" /\ ret # NoValue)
          => /\ ret[1].epoch_loss = NpMean(collection["total_loss"])
             /\ ret[1].epoch_loss.n = batch_index
             /\ \A k \in DOMAIN ret[1].metrics :
                   ret[1].metrics[k].n
                      <= IF k = "AP" THEN NumClasses
                         ELSE IF k = "IOU" THEN BatchImages * batch_index
                         ELSE batch_index

\* a second pass has run to its end
SecondPassReturned ==
    passes = 2 /\ pc = "idle" /\ ret # NoValue /\ batch_index = 2

\* C9: after every epoch the weights are saved; best_value is the least
\* validation loss so far and best_model holds the weights saved by the
\* earliest epoch that reached it.
BestIsEarliestMinimum ==
    /\ Len(losses) = epoch
    /\ epoch = 0 => (best_value = NoValue /\ best_model = NoValue
                     /\ current_model = NoValue)
    /\ epoch >= 1 =>
          /\ current_model = Some(losses[epoch].saved)
          /\ \E e \in 1..epoch :
                /\ best_value = Some(losses[e].val_loss)
                /\ best_model = Some(losses[e].saved)
                /\ \A j \in 1..epoch :
                      LessOrEqual(losses[e].val_loss, losses[j].val_loss)
                /\ \A j \in 1..(e - 1) :
                      Less(losses[e].val_loss, losses[j].val_loss)

\* a later epoch has tied the best loss and the first epoch's weights stay
TieKeepsEarlierWeights ==
    /\ epoch = 2
    /\ LessOrEqual(losses[2].val_loss, losses[1].val_loss)
    /\ LessOrEqual(losses[1].val_loss, losses[2].val_loss)
    /\ best_model = Some(losses[1].saved)
    /\ current_model = Some(losses[2].saved)
    /\ losses[1].saved # losses[2].saved

\* C10: a pass writes one visualization, for batch 0 and no later batch:
\* the class-annotated one when batch 0 has regions, else the plain overlay.
OneVisualizationPerPass ==
    /\ (pc \in PassKinds /\ batch_index = 0) => vis = <<>>
    /\ (BatchDone \/ (pc = "idle" /\ ret # NoValue))
          => (Len(vis) = 1 /\ vis[1].batch = 0)
    /\ pc = "raised" => Len(vis) <= 1
    /\ (pc \in PassKinds /\ batch_index = 1)
          => vis[1].kind = IF last.not_enough_rects THEN "plain"
                           ELSE "with_class"

\* batch 0 had no region, batch 1 had regions, and nothing more was written
SecondBatchWritesNothing ==
    /\ BatchDone /\ batch_index = 2
    /\ ~last.not_enough_rects
    /\ vis = <<[batch |-> 0, kind |-> "plain"]>>

\* the thresholds 0.50, 0.55, ..., 0.95 in twentieths
Thresholds == {10 + k : k \in 0..9}

\* number of thresholds a rounded x <= 1 strictly exceeds
ThresholdsExceeded(x) ==
    IF ~AboveHalf(x) THEN 0
    ELSE Cardinality({t \in Thresholds : 20 * x.m > t * 2^(-x.e)})

TotalLossIsSegmPlusProj ==
    LET total == collection["total_loss"]
        proj  == collection["proj_loss"]
        segm  == collection["segm_loss"]
    IN  /\ Len(total) = Len(proj) /\ Len(proj) = Len(segm)
        /\ \A j \in 1..Len(total) : total[j] = segm[j] + proj[j]
        /\ BatchDone =>
              /\ Len(proj) = batch_index
              /\ \A k \in 1..Len(last.loss_labels) : last.loss_labels[k] >= 0
              /\ Len(last.loss_labels) = MatchedCount(last.proj_class)
              /\ (last.not_enough_rects \/ MatchedCount(last.proj_class) = 0)
                    => proj[batch_index] = 0
              /\ last.loss_labels = <<>> <=> proj[batch_index] = 0
              /\ proj[batch_index] <= 1 + Len(last.loss_labels)
        /\ (pc = "idle" /\ ret # NoValue) =>
              LET t == ret[1].epoch_loss
                  g == ret[1].metrics["segm_loss"]
                  p == ret[1].metrics["proj_loss"]
              IN  /\ ~t.nan /\ ~g.nan /\ ~p.nan
                  /\ t.sum * g.n * p.n = g.sum * t.n * p.n + p.sum * t.n * g.n

\* an evaluation pass has returned after a batch with a matched and an
\* unmatched region (a cross-entropy over the one) and a batch with none
MixedProjLossReturned ==
    /\ pc = "idle" /\ ret # NoValue
    /\ \E j, k \in 1..Len(collection["proj_loss"]) :
          /\ collection["proj_loss"][j] = 0
          /\ collection["proj_loss"][k] > 0
    /\ Len(last.loss_labels) = 1 /\ Len(last.proj_class) = 2
    /\ "IOU" \in DOMAIN ret[1].metrics

EvalPasses == {"val_epoch", "calc_metrics"}

\* C13: a batch of val_epoch or calc_metrics that reads proj_out (a batch
\* with regions) reads rows classified in that same batch from its own
\* patches, one row per rectangle: no pass ends because proj_out was unbound
\* or had the wrong number of rows, and no row is left from an earlier batch.
ProjOutReadIsBoundAndFresh ==
    /\ pc = "raised" => last.error \notin {"UnboundLocalError", "IndexError"}
    /\ (pc \in EvalPasses /\ batch_index >= 1 /\ ~last.not_enough_rects) =>
          /\ proj_out # NoValue
          /\ Len(proj_out[1]) = last.rects
          /\ Len(proj_out[1]) = Len(last.proj_class)
          /\ \A k \in 1..Len(proj_out[1]) :
                proj_out[1][k].logits_of.batch = batch_index - 1

\* the second batch of an evaluation pass has gone through with the rows the
\* classifier gave for the first batch
StaleRowsUsed ==
    /\ pc \in EvalPasses /\ batch_index = 2
    /\ ~last.not_enough_rects /\ last.error = NoError
    /\ proj_out # NoValue
    /\ \A k \in 1..Len(proj_out[1]) : proj_out[1][k].logits_of.batch = 0

====
